---- MODULE Spec2Model ----
(***************************************************************************)
(* Model of the LINE webhook dialogue handler (userState / currentWord)    *)
(* and of the paginated Notion page cache (cache, getNextPage).            *)
(*                                                                         *)
(* A handler is the async callback of events.map in POST.  JavaScript runs *)
(* a callback without interruption up to its next await, so every action   *)
(* below is one such uninterrupted segment: it starts where an event is    *)
(* received or an awaited call settles and ends at the next await or at    *)
(* the end of the callback.                                                *)
(***************************************************************************)
EXTENDS Integers, Sequences, FiniteSets, TLC

\* ---------------------------------------------------------------- bounds
MaxPages == 2       \* pages in the Notion database
MaxPageLen == 2     \* cards per page
MaxEvents == 4      \* webhook events delivered in one run
MaxInflight == 2    \* handler slots (callbacks that may be suspended)
MaxTtsCalls == 3    \* text-to-speech calls made by the audio endpoint
MaxSavers == 2      \* saveLearningProgress calls that may be suspended
MaxSaves == 3       \* saveLearningProgress calls made in one run
MaxEmailLen == 6    \* characters typed into the email field
MaxSubmits == 3     \* submissions of the login form in one run

\* ------------------------------------------------------------- constants
Null == 0           \* null / undefined: no card, no cursor

ButtonLabel == {"Next", "Meaning", "Never Better", "Good", "So So", "Not At All"}
GradeLabels == {"Never Better", "Good", "So So", "Not At All"}
OtherTexts == {"next", "Good "}
Texts == ButtonLabel \cup OtherTexts

\* Variant: the list of labels lacks one.
isValidButtonLabel_missingLabel(value) ==
  value \in ButtonLabel \ {"Not At All"}

isValidButtonLabel(value) == value \in ButtonLabel

\* event.source.userId: the LINE users that talk to the bot, and the value
\* of a source that carries no user id.
Users == {"U1", "U2"}
NoUserId == ""

\* Inbound webhook events: text messages (with or without a user id on the
\* source) and events of any other type.
Events ==
  {[type |-> "text", text |-> t, userId |-> u] : t \in Texts, u \in Users}
    \cup {[type |-> "text", text |-> "Next", userId |-> NoUserId],
          [type |-> "other", text |-> "", userId |-> "U1"]}

\* ------------------------------------------------- the content source
\* A database is a sequence of pages; a page is a sequence of cards; cards
\* are numbered 1, 2, ... in database order, so they are pairwise distinct.
RECURSIVE SumTo(_, _)
SumTo(s, k) == IF k = 0 THEN 0 ELSE s[k] + SumTo(s, k - 1)

PageOf(s, k) == [j \in 1..s[k] |-> SumTo(s, k - 1) + j]

DeckOf(s) == [k \in 1..Len(s) |-> PageOf(s, k)]

Decks ==
  {DeckOf(s) : s \in UNION {[1..n -> 0..MaxPageLen] : n \in 1..MaxPages}}

Handlers == 1..MaxInflight

VARIABLES
  pages,         \* the Notion database (never changes)
  data,          \* cache.data
  nextCursor,    \* cache.nextCursor
  currentIndex,  \* cache.currentIndex
  audioFiles,    \* cards that have an audio file in public/output
  userState,     \* "NotDisplayed" | "NotUnderstood" | "Understood"
  currentWord,   \* the displayed card, or Null
  h,             \* the handler callbacks and where each is suspended
  nEvents,       \* events delivered so far
  served,        \* cards getNextPage returned since the cache was last reset
  displayed,     \* the cards "Next" events have displayed, in order
  fetchLog,      \* getFormattedDatabasePages calls, in call order
  records        \* updateMemorizationStatus calls, in call order (shown:
                 \* how many cards had been displayed when the call was made)

VARIABLES
  postResponse,      \* what the webhook POST answered to the last request;
                     \* "none" while the request is being handled
  outputDirExists,   \* whether the directory public/output exists
  ttsCalls,          \* client.synthesizeSpeech calls made so far
  audioRequest,      \* the request the audio endpoint answered last
  audioResponse,     \* what it answered
  progressDoc,       \* the Firestore document learningProgress/<date>
  savers,            \* the saveLearningProgress calls and where each is
  nSaved,            \* saveLearningProgress calls that have returned
  nSaves,            \* saveLearningProgress calls made so far
  isLoading,         \* LoginForm: the state isLoading
  formPc,            \* LoginForm: where handleSubmit is
  lastAlert,         \* LoginForm: the alert handleSubmit raised last
  loginArgs,         \* LoginForm: the arguments of the awaited onSubmit
  nSubmits           \* LoginForm: submit events so far

cacheVars == <<data, nextCursor, currentIndex, served>>
sessionVars == <<userState, currentWord>>
logVars == <<displayed, fetchLog, records>>
endpointVars == <<outputDirExists, ttsCalls, audioRequest, audioResponse>>
progressVars == <<progressDoc, savers, nSaved, nSaves>>
formVars == <<isLoading, formPc, lastAlert, loginArgs, nSubmits>>

\* What the webhook handler reads at most: the database and the state of
\* the other routes and components.
envVars == <<pages, endpointVars, progressVars, formVars>>

vars == <<pages, data, nextCursor, currentIndex, audioFiles, userState,
          currentWord, h, nEvents, served, displayed,
          fetchLog, records, postResponse, endpointVars, progressVars,
          formVars>>

\* getFormattedDatabasePages(startCursor): the page the cursor names (the
\* first page when no cursor is given) and the cursor of the page after it.
getFormattedDatabasePages(startCursor) ==
  LET k == IF startCursor = Null THEN 1 ELSE startCursor
  IN [results |-> pages[k],
      next_cursor |-> IF k < Len(pages) THEN k + 1 ELSE Null]

\* cache.hasMore()
hasMore == currentIndex < Len(data) \/ nextCursor # Null

\* Variant: the test is off by one, so the last card of a page is refilled
\* over instead of served.
cacheExhausted_offByOne == currentIndex + 1 >= Len(data)

\* getNextPage: "the cache is empty or all pages have been served".
cacheExhausted == currentIndex >= Len(data)

\* Variant: the index is not incremented.
servePage_noIncrement(buf, idx) == [page |-> buf[idx + 1], index |-> idx]

\* getNextPage: serve buf[idx] (0-based) and increment the index.
servePage(buf, idx) == [page |-> buf[idx + 1], index |-> idx + 1]

\* Variant: the "Meaning" branch does not test userState.
meaningAccepted_anyState == currentWord # Null

\* The guard of the "Meaning" branch and the guard of the feedback branch.
meaningAccepted == userState = "NotUnderstood" /\ currentWord # Null

\* Variant: the feedback branch does not test userState.
gradeAccepted_anyState == currentWord # Null

gradeAccepted == userState = "Understood" /\ currentWord # Null

\* The session the handler uses for the conversation with the user c: the
\* module-level pair, whoever c is.
sessionOf(c) == [userState |-> userState, currentWord |-> currentWord]

\* The session and the cache as a callback finds them when it starts.
Snapshot ==
  [data |-> data, nextCursor |-> nextCursor, currentIndex |-> currentIndex,
   userState |-> userState, currentWord |-> currentWord,
   audioFiles |-> audioFiles, nFetched |-> Len(fetchLog),
   nRecorded |-> Len(records), nDisplayed |-> Len(displayed)]

NoSnapshot ==
  [data |-> <<>>, nextCursor |-> Null, currentIndex |-> 0,
   userState |-> "NotDisplayed", currentWord |-> Null, audioFiles |-> {},
   nFetched |-> 0, nRecorded |-> 0, nDisplayed |-> 0]

\* One client.replyMessage call: which call it is, the card whose
\* properties it renders (Null when it renders none), whether an audio
\* message is part of the batch, and the quick-reply buttons.
ReplyMsg(kind, word, audio, quick) ==
  [kind |-> kind, word |-> word, audio |-> audio, quick |-> quick]

NoReply == ReplyMsg("none", Null, FALSE, {})

\* A callback that is not running.  A running callback holds the text and
\* the user id of its event, the place of the event among the events
\* delivered (seq), its locals (saved: nextCursor of getNextPage; page: the
\* value getNextPage resolved to, or the word passed to an awaited call; ok:
\* the result of the awaited call; call: the place in fetchLog or records of
\* the call it awaits), the number of fetch, audio, update and reply calls
\* it has made, the messages of its client.replyMessage call, whether it
\* has been resumed after an await, and the snapshot taken when it started.
IdleHandler ==
  [pc |-> "idle", text |-> "", chat |-> NoUserId, seq |-> 0, saved |-> Null,
   page |-> Null, ok |-> FALSE, call |-> 0, nFetch |-> 0, nAudio |-> 0,
   nRecord |-> 0, nReply |-> 0, reply |-> NoReply, resumed |-> FALSE,
   pre |-> NoSnapshot]

Quiescent == \A i \in Handlers : h[i].pc = "idle"

\* POST /api/generate-audio-file.  A value of the JSON body: missing
\* (undefined), a number n, or a string; a string is the empty string when
\* n = 0 and otherwise a text, or as pageId the id of the page n.
JsonValue(type, n) == [type |-> type, n |-> n]

\* The page ids requests are made with.
PageIds == 1..MaxPageLen

TextValues ==
  {JsonValue("undefined", 0), JsonValue("number", 1), JsonValue("string", 0),
   JsonValue("string", 1)}

PageIdValues ==
  TextValues \cup {JsonValue("string", n) : n \in PageIds}

\* !v in JavaScript: undefined, 0 and "" are falsy.
falsy(v) == v.type = "undefined" \/ v.n = 0

\* !v || typeof v !== "string"
invalidParam(v) == falsy(v) \/ v.type # "string"

\* process.env.INTERNAL_API_KEY, and the values of the internal-api-key
\* header: missing (headers.get returns null), the key, another string.
INTERNAL_API_KEY == "key"
HeaderValues == {"null", INTERNAL_API_KEY, "other"}

isValidApiKey(req) == req.apiKey = INTERNAL_API_KEY

\* The requests: the header, whether request.json() yields an object to
\* destructure, text and pageId of that object, whether a host header is
\* there.
Requests ==
  [apiKey : HeaderValues, parsed : BOOLEAN, text : TextValues,
   pageId : PageIdValues, host : BOOLEAN]

NoRequest ==
  [apiKey |-> "null", parsed |-> FALSE, text |-> JsonValue("undefined", 0),
   pageId |-> JsonValue("undefined", 0), host |-> FALSE]

\* A response of the audio endpoint: the HTTP status and, for 200, the page
\* id in the file URL (Null otherwise).
AudioResponse(status, fileUrl) == [status |-> status, fileUrl |-> fileUrl]

NoAudioResponse == AudioResponse(0, Null)

\* The audio endpoint before its first request; the webhook is deployed with
\* public/output in place.
InitEndpoint ==
  /\ ttsCalls = 0
  /\ audioRequest = NoRequest
  /\ audioResponse = NoAudioResponse

\* ------------------------------------------- saveLearningProgress
Savers == 1..MaxSavers

\* The document learningProgress/<date>: absent, or with its counters
\* (studiedWords and the timestamps are not read by any code).
ProgressDoc(total, memorized) ==
  [exists |-> TRUE, totalStudied |-> total, memorized |-> memorized]

NoDoc ==
  [exists |-> FALSE, totalStudied |-> 0,
   memorized |-> [g \in GradeLabels |-> 0]]

\* The document setDoc writes when getDoc found none.
ZeroDoc == ProgressDoc(0, [g \in GradeLabels |-> 0])

\* A call that is not running.  A running call holds memorizedStatus and
\* what progressDoc.exists() returned.
IdleSaver == [pc |-> "idle", memorizedStatus |-> "Good", exists |-> FALSE]

InitProgress ==
  /\ progressDoc = NoDoc
  /\ savers = [c \in Savers |-> IdleSaver]
  /\ nSaved = 0
  /\ nSaves = 0

\* ----------------------------------------------------- LoginForm
\* The characters typed into the fields: a space, a letter and the two
\* characters the email pattern names.  A string is a sequence of them.
Chars == {" ", "a", "@", "."}
Emails == UNION {[1..n -> Chars] : n \in 0..MaxEmailLen}
Passwords == {<<>>, <<" ">>, <<"a">>, <<" ", "a">>}

\* String.prototype.trim()
RECURSIVE trimStart(_), trimEnd(_)
trimStart(s) ==
  IF s # <<>> /\ s[1] = " " THEN trimStart(Tail(s)) ELSE s

trimEnd(s) ==
  IF s # <<>> /\ s[Len(s)] = " "
    THEN trimEnd(SubSeq(s, 1, Len(s) - 1))
    ELSE s

trim(s) == trimEnd(trimStart(s))

\* /^[^\s@]+@[^\s@]+\.[^\s@]+$/.test(s): an "@" at i, a "." at j, and
\* otherwise no space and no "@", the three parts being non-empty.
emailRegexTest(s) ==
  \E i \in 2..Len(s), j \in 4..(Len(s) - 1) :
    /\ i + 1 < j
    /\ s[i] = "@"
    /\ s[j] = "."
    /\ \A k \in 1..Len(s) : k # i => s[k] \notin {" ", "@"}

NoArgs == [email |-> <<>>, password |-> <<>>]

\* The form as it is mounted: useState(false).
InitForm ==
  /\ isLoading = FALSE
  /\ formPc = "idle"
  /\ lastAlert = "none"
  /\ loginArgs = NoArgs
  /\ nSubmits = 0

\* The webhook route when the module has been loaded.
InitWebhook ==
  /\ pages \in Decks
  /\ data = <<>>
  /\ nextCursor = Null
  /\ currentIndex = 0
  /\ audioFiles = {}
  /\ userState = "NotDisplayed"
  /\ currentWord = Null
  /\ h = [i \in Handlers |-> IdleHandler]
  /\ nEvents = 0
  /\ served = <<>>
  /\ displayed = <<>>
  /\ fetchLog = <<>>
  /\ records = <<>>
  /\ postResponse = "none"

Init ==
  /\ InitWebhook
  /\ outputDirExists = TRUE
  /\ InitEndpoint
  /\ InitProgress
  /\ InitForm

\* ------------------------------------------------------------- helpers
\* The callback i is free and another event may still be delivered.
CanStart(i) == h[i].pc = "idle" /\ nEvents < MaxEvents

\* What a callback holds when it has just started on the event e.
Started(e) ==
  [IdleHandler EXCEPT !.text = e.text, !.chat = e.userId,
                      !.seq = nEvents + 1, !.pre = Snapshot]

\* The callback i starts on e and suspends at its first await.
Suspend(i, e, rec) ==
  /\ h' = [h EXCEPT ![i] = rec]
  /\ nEvents' = nEvents + 1
  /\ postResponse' = "none"

\* The callback i starts on e and returns without awaiting anything.
Return(i, e) ==
  /\ h' = [h EXCEPT ![i] = [Started(e) EXCEPT !.pc = "fulfilled"]]
  /\ nEvents' = nEvents + 1
  /\ postResponse' = "none"

\* The suspended callback i goes on to its next await.
Continue(i, rec) ==
  /\ h' = [h EXCEPT ![i] = [rec EXCEPT !.resumed = TRUE]]
  /\ nEvents' = nEvents
  /\ postResponse' = postResponse

\* The suspended callback i returns (st = "ok") or rejects (st = "thrown").
Finish(i, st) ==
  /\ h' = [h EXCEPT ![i].pc = IF st = "ok" THEN "fulfilled" ELSE "rejected",
                   ![i].resumed = TRUE]
  /\ nEvents' = nEvents
  /\ postResponse' = postResponse

\* clearOutputDirectory(): deletes the audio files one by one; an error is
\* caught and logged, which leaves the files not yet deleted.
clearOutputDirectory(left) ==
  /\ left \in SUBSET audioFiles
  /\ audioFiles' = left

\* Variant: reset does not clear nextCursor.
reset_keepCursor(left) ==
  /\ clearOutputDirectory(left)
  /\ data' = <<>>
  /\ nextCursor' = nextCursor
  /\ currentIndex' = 0
  /\ served' = <<>>

\* Variant: reset does not clear currentIndex.
reset_keepIndex(left) ==
  /\ clearOutputDirectory(left)
  /\ data' = <<>>
  /\ nextCursor' = Null
  /\ currentIndex' = currentIndex
  /\ served' = <<>>

\* cache.reset()
reset(left) ==
  /\ clearOutputDirectory(left)
  /\ data' = <<>>
  /\ nextCursor' = Null
  /\ currentIndex' = 0
  /\ served' = <<>>

\* ------------------------------------------------------------- actions
\* An event that is not a text message: the callback does nothing.
RecvOther(i, e) ==
  /\ CanStart(i)
  /\ e.type # "text"
  /\ Return(i, e)
  /\ UNCHANGED <<envVars, cacheVars, audioFiles, sessionVars, logVars>>

\* Variant: the branch does not reset userState.
RecvUnsupportedNoWord_keepState(i, e) ==
  /\ CanStart(i)
  /\ e.type = "text"
  /\ ~isValidButtonLabel(e.text)
  /\ currentWord = Null
  /\ userState' = userState
  /\ Suspend(i, e, [Started(e) EXCEPT
                      !.pc = "reply", !.nReply = 1,
                      !.reply = ReplyMsg("unsupported", Null, FALSE, {"Next"})])
  /\ UNCHANGED <<envVars, cacheVars, audioFiles, currentWord, logVars>>

\* Unsupported text, no current word: reset the state, ask for "Next".
RecvUnsupportedNoWord(i, e) ==
  /\ CanStart(i)
  /\ e.type = "text"
  /\ ~isValidButtonLabel(e.text)
  /\ currentWord = Null
  /\ userState' = "NotDisplayed"
  /\ Suspend(i, e, [Started(e) EXCEPT
                      !.pc = "reply", !.nReply = 1,
                      !.reply = ReplyMsg("unsupported", Null, FALSE, {"Next"})])
  /\ UNCHANGED <<envVars, cacheVars, audioFiles, currentWord, logVars>>

\* Variant: the branch resets userState as the no-word branch does.
RecvUnsupportedEcho_resetState(i, e) ==
  /\ CanStart(i)
  /\ e.type = "text"
  /\ ~isValidButtonLabel(e.text)
  /\ currentWord # Null
  /\ userState' = "NotDisplayed"
  /\ Suspend(i, e, [Started(e) EXCEPT
                      !.pc = "reply", !.nReply = 1,
                      !.reply = ReplyMsg("echo", currentWord, FALSE,
                                         {"Next", "Meaning"})])
  /\ UNCHANGED <<envVars, cacheVars, audioFiles, currentWord, logVars>>

\* Unsupported text, a current word exists: repeat its phrase.
RecvUnsupportedEcho(i, e) ==
  /\ CanStart(i)
  /\ e.type = "text"
  /\ ~isValidButtonLabel(e.text)
  /\ currentWord # Null
  /\ Suspend(i, e, [Started(e) EXCEPT
                      !.pc = "reply", !.nReply = 1,
                      !.reply = ReplyMsg("echo", currentWord, FALSE,
                                         {"Next", "Meaning"})])
  /\ UNCHANGED <<envVars, cacheVars, audioFiles, sessionVars, logVars>>

\* Variant: the cache is reset before the user id is tested.
RecvNextNoChatId_resetFirst(i, e) ==
  /\ CanStart(i)
  /\ e.type = "text"
  /\ isValidButtonLabel(e.text)
  /\ e.text = "Next"
  /\ e.userId = NoUserId
  /\ \E left \in SUBSET audioFiles : reset(left)
  /\ Suspend(i, e, [Started(e) EXCEPT
                      !.pc = "reply", !.nReply = 1,
                      !.reply = ReplyMsg("noChatId", Null, FALSE, {})])
  /\ UNCHANGED <<envVars, sessionVars, logVars>>

\* "Next" from a source without a user id: one error reply, then return.
RecvNextNoChatId(i, e) ==
  /\ CanStart(i)
  /\ e.type = "text"
  /\ isValidButtonLabel(e.text)
  /\ e.text = "Next"
  /\ e.userId = NoUserId
  /\ Suspend(i, e, [Started(e) EXCEPT
                      !.pc = "reply", !.nReply = 1,
                      !.reply = ReplyMsg("noChatId", Null, FALSE, {})])
  /\ UNCHANGED <<envVars, cacheVars, audioFiles, sessionVars, logVars>>

\* Variant: a call served from the cache clears the output directory too.
RecvNextCached_clearsOutput(i, e) ==
  /\ CanStart(i)
  /\ e.type = "text"
  /\ isValidButtonLabel(e.text)
  /\ e.text = "Next"
  /\ e.userId # NoUserId
  /\ ~cacheExhausted
  /\ \E left \in SUBSET audioFiles : clearOutputDirectory(left)
  /\ LET s == servePage(data, currentIndex)
     IN /\ currentIndex' = s.index
        /\ served' = Append(served, s.page)
        /\ Suspend(i, e, [Started(e) EXCEPT !.pc = "gotPage", !.page = s.page])
  /\ UNCHANGED <<envVars, data, nextCursor, sessionVars, logVars>>

\* "Next", getNextPage finds a card in the cache: it serves
\* cache.data[cache.currentIndex] and increments the index.
RecvNextCached(i, e) ==
  /\ CanStart(i)
  /\ e.type = "text"
  /\ isValidButtonLabel(e.text)
  /\ e.text = "Next"
  /\ e.userId # NoUserId
  /\ ~cacheExhausted
  /\ LET s == servePage(data, currentIndex)
     IN /\ currentIndex' = s.index
        /\ served' = Append(served, s.page)
        /\ Suspend(i, e, [Started(e) EXCEPT !.pc = "gotPage", !.page = s.page])
  /\ UNCHANGED <<envVars, data, nextCursor, audioFiles, sessionVars, logVars>>

\* Variant: the cursor is read after the cache has been reset.
RecvNextRefill_saveAfterReset(i, e) ==
  /\ CanStart(i)
  /\ e.type = "text"
  /\ isValidButtonLabel(e.text)
  /\ e.text = "Next"
  /\ e.userId # NoUserId
  /\ cacheExhausted
  /\ \E left \in SUBSET audioFiles : reset(left)
  /\ fetchLog' = Append(fetchLog, [cursor |-> Null, status |-> "pending"])
  /\ Suspend(i, e, [Started(e) EXCEPT !.pc = "fetch", !.saved = Null,
                                      !.call = Len(fetchLog) + 1,
                                      !.nFetch = 1])
  /\ UNCHANGED <<envVars, sessionVars, displayed, records>>

\* Variant: once a fetch has been made, a null cursor ends the deck:
\* getNextPage resolves to null without a reset and without a fetch.
RecvNextRefill_stopsAtEnd(i, e) ==
  /\ CanStart(i)
  /\ e.type = "text"
  /\ isValidButtonLabel(e.text)
  /\ e.text = "Next"
  /\ e.userId # NoUserId
  /\ cacheExhausted
  /\ IF nextCursor = Null /\ fetchLog # <<>>
       THEN /\ Suspend(i, e, [Started(e) EXCEPT !.pc = "gotPage"])
            /\ UNCHANGED <<cacheVars, audioFiles, fetchLog>>
       ELSE /\ \E left \in SUBSET audioFiles : reset(left)
            /\ fetchLog' = Append(fetchLog, [cursor |-> nextCursor,
                                             status |-> "pending"])
            /\ Suspend(i, e, [Started(e) EXCEPT !.pc = "fetch",
                                                !.saved = nextCursor,
                                                !.call = Len(fetchLog) + 1,
                                                !.nFetch = 1])
  /\ UNCHANGED <<envVars, sessionVars, displayed, records>>

\* "Next", getNextPage finds the cache exhausted: it saves the cursor,
\* resets the cache and awaits the loading animation and the fetch.
RecvNextRefill(i, e) ==
  /\ CanStart(i)
  /\ e.type = "text"
  /\ isValidButtonLabel(e.text)
  /\ e.text = "Next"
  /\ e.userId # NoUserId
  /\ cacheExhausted
  /\ \E left \in SUBSET audioFiles : reset(left)
  /\ fetchLog' = Append(fetchLog, [cursor |-> nextCursor, status |-> "pending"])
  /\ Suspend(i, e, [Started(e) EXCEPT !.pc = "fetch", !.saved = nextCursor,
                                      !.call = Len(fetchLog) + 1,
                                      !.nFetch = 1])
  /\ UNCHANGED <<envVars, sessionVars, displayed, records>>

\* Variant: an empty page returns before the cursor is stored.
FetchOk_emptyDropsCursor(i) ==
  /\ h[i].pc = "fetch"
  /\ LET response == getFormattedDatabasePages(h[i].saved)
         s == servePage(response.results, 0)
     IN /\ data' = response.results
        /\ nextCursor' = IF Len(response.results) = 0
                            THEN nextCursor ELSE response.next_cursor
        /\ IF Len(response.results) = 0
             THEN /\ currentIndex' = 0
                  /\ served' = served
                  /\ Continue(i, [h[i] EXCEPT !.pc = "gotPage", !.page = Null])
             ELSE /\ currentIndex' = s.index
                  /\ served' = Append(served, s.page)
                  /\ Continue(i, [h[i] EXCEPT !.pc = "gotPage",
                                              !.page = s.page])
  /\ fetchLog' = [fetchLog EXCEPT ![h[i].call].status = "ok"]
  /\ UNCHANGED <<envVars, audioFiles, sessionVars, displayed, records>>

\* The fetch returns: the cache takes the page and its cursor; getNextPage
\* returns null for an empty page and the first card otherwise.
FetchOk(i) ==
  /\ h[i].pc = "fetch"
  /\ LET response == getFormattedDatabasePages(h[i].saved)
         s == servePage(response.results, 0)
     IN /\ data' = response.results
        /\ nextCursor' = response.next_cursor
        /\ IF Len(response.results) = 0
             THEN /\ currentIndex' = 0
                  /\ served' = served
                  /\ Continue(i, [h[i] EXCEPT !.pc = "gotPage", !.page = Null])
             ELSE /\ currentIndex' = s.index
                  /\ served' = Append(served, s.page)
                  /\ Continue(i, [h[i] EXCEPT !.pc = "gotPage",
                                              !.page = s.page])
  /\ fetchLog' = [fetchLog EXCEPT ![h[i].call].status = "ok"]
  /\ UNCHANGED <<envVars, audioFiles, sessionVars, displayed, records>>

\* Variant: a failed fetch is issued once more.
FetchFail_retry(i) ==
  /\ h[i].pc = "fetch"
  /\ IF h[i].nFetch < 2
       THEN /\ fetchLog' = Append([fetchLog EXCEPT
                                     ![h[i].call].status = "failed"],
                                  [cursor |-> h[i].saved,
                                   status |-> "pending"])
            /\ Continue(i, [h[i] EXCEPT !.call = Len(fetchLog) + 1,
                                        !.nFetch = h[i].nFetch + 1])
       ELSE /\ fetchLog' = [fetchLog EXCEPT ![h[i].call].status = "failed"]
            /\ Finish(i, "thrown")
  /\ UNCHANGED <<envVars, cacheVars, audioFiles, sessionVars, displayed,
                 records>>

\* The fetch fails: getNextPage rethrows, the callback rejects.
FetchFail(i) ==
  /\ h[i].pc = "fetch"
  /\ Finish(i, "thrown")
  /\ fetchLog' = [fetchLog EXCEPT ![h[i].call].status = "failed"]
  /\ UNCHANGED <<envVars, cacheVars, audioFiles, sessionVars, displayed,
                 records>>

\* Variant: userState is set before the result of getNextPage is tested.
NextResume_alwaysShown(i) ==
  /\ h[i].pc = "gotPage"
  /\ currentWord' = h[i].page
  /\ userState' = "NotUnderstood"
  /\ displayed' = IF h[i].page # Null THEN Append(displayed, h[i].page)
                                      ELSE displayed
  /\ Continue(i, [h[i] EXCEPT
                    !.pc = "reply", !.nReply = h[i].nReply + 1,
                    !.reply = IF h[i].page # Null
                                THEN ReplyMsg("phrase", h[i].page, FALSE,
                                              {"Next", "Meaning"})
                                ELSE ReplyMsg("complete", Null, FALSE, {})])
  /\ UNCHANGED <<envVars, cacheVars, audioFiles, fetchLog, records>>

\* Variant: displaying a card does not set userState.
NextResume_keepState(i) ==
  /\ h[i].pc = "gotPage"
  /\ currentWord' = h[i].page
  /\ userState' = userState
  /\ displayed' = IF h[i].page # Null THEN Append(displayed, h[i].page)
                                      ELSE displayed
  /\ Continue(i, [h[i] EXCEPT
                    !.pc = "reply", !.nReply = h[i].nReply + 1,
                    !.reply = IF h[i].page # Null
                                THEN ReplyMsg("phrase", h[i].page, FALSE,
                                              {"Next", "Meaning"})
                                ELSE ReplyMsg("complete", Null, FALSE, {})])
  /\ UNCHANGED <<envVars, cacheVars, audioFiles, fetchLog, records>>

\* getNextPage has resolved: currentWord takes its value; a card is
\* displayed, null yields the "completed" message.
NextResume(i) ==
  /\ h[i].pc = "gotPage"
  /\ currentWord' = h[i].page
  /\ IF h[i].page # Null
       THEN /\ userState' = "NotUnderstood"
            /\ displayed' = Append(displayed, h[i].page)
            /\ Continue(i, [h[i] EXCEPT
                              !.pc = "reply", !.nReply = h[i].nReply + 1,
                              !.reply = ReplyMsg("phrase", h[i].page, FALSE,
                                                 {"Next", "Meaning"})])
       ELSE /\ userState' = userState
            /\ displayed' = displayed
            /\ Continue(i, [h[i] EXCEPT
                              !.pc = "reply", !.nReply = h[i].nReply + 1,
                              !.reply = ReplyMsg("complete", Null, FALSE, {})])
  /\ UNCHANGED <<envVars, cacheVars, audioFiles, fetchLog, records>>

\* "Meaning" outside "NotUnderstood" or without a current word: ignored.
RecvMeaningIgnored(i, e) ==
  /\ CanStart(i)
  /\ e.type = "text"
  /\ isValidButtonLabel(e.text)
  /\ e.text = "Meaning"
  /\ ~meaningAccepted
  /\ Return(i, e)
  /\ UNCHANGED <<envVars, cacheVars, audioFiles, sessionVars, logVars>>

\* Variant: the "Meaning" branch does not set userState.
RecvMeaning_keepState(i, e) ==
  /\ CanStart(i)
  /\ e.type = "text"
  /\ isValidButtonLabel(e.text)
  /\ e.text = "Meaning"
  /\ meaningAccepted
  /\ userState' = userState
  /\ Suspend(i, e, [Started(e) EXCEPT !.pc = "audio", !.page = currentWord,
                                      !.nAudio = 1])
  /\ UNCHANGED <<envVars, cacheVars, audioFiles, currentWord, logVars>>

\* "Meaning" for a displayed word: the state becomes "Understood" and the
\* callback awaits generateAudioFileViaApi for the current word.
RecvMeaning(i, e) ==
  /\ CanStart(i)
  /\ e.type = "text"
  /\ isValidButtonLabel(e.text)
  /\ e.text = "Meaning"
  /\ meaningAccepted
  /\ userState' = "Understood"
  /\ Suspend(i, e, [Started(e) EXCEPT !.pc = "audio", !.page = currentWord,
                                      !.nAudio = 1])
  /\ UNCHANGED <<envVars, cacheVars, audioFiles, currentWord, logVars>>

\* Variant: a failed audio generation rejects the callback.
AudioDone_failThrows(i, ok, wrote) ==
  /\ h[i].pc = "audio"
  /\ ok => wrote
  /\ audioFiles' = IF wrote THEN audioFiles \cup {h[i].page} ELSE audioFiles
  /\ IF currentWord = Null \/ ~ok
       THEN Finish(i, "thrown")
       ELSE Continue(i, [h[i] EXCEPT
                           !.pc = "reply", !.ok = ok,
                           !.nReply = h[i].nReply + 1,
                           !.reply = ReplyMsg("detail", currentWord, ok,
                                              {"Next"} \cup GradeLabels)])
  /\ UNCHANGED <<envVars, cacheVars, sessionVars, logVars>>

\* generateAudioFileViaApi resolves to ok (true, or false for a non-OK
\* response, a thrown error or a missing key); wrote tells whether the
\* endpoint left a file.  The messages are built from currentWord as it is
\* now; reading a property of null throws.
AudioDone(i, ok, wrote) ==
  /\ h[i].pc = "audio"
  /\ ok => wrote
  /\ audioFiles' = IF wrote THEN audioFiles \cup {h[i].page} ELSE audioFiles
  /\ IF currentWord = Null
       THEN Finish(i, "thrown")
       ELSE Continue(i, [h[i] EXCEPT
                           !.pc = "reply", !.ok = ok,
                           !.nReply = h[i].nReply + 1,
                           !.reply = ReplyMsg("detail", currentWord, ok,
                                              {"Next"} \cup GradeLabels)])
  /\ UNCHANGED <<envVars, cacheVars, sessionVars, logVars>>

\* A feedback button outside "Understood" or without a current word: ignored.
RecvGradeIgnored(i, e) ==
  /\ CanStart(i)
  /\ e.type = "text"
  /\ isValidButtonLabel(e.text)
  /\ e.text \in GradeLabels
  /\ ~gradeAccepted
  /\ Return(i, e)
  /\ UNCHANGED <<envVars, cacheVars, audioFiles, sessionVars, logVars>>

\* Variant: the feedback branch does not reset userState.
RecvGrade_keepState(i, e) ==
  /\ CanStart(i)
  /\ e.type = "text"
  /\ isValidButtonLabel(e.text)
  /\ e.text \in GradeLabels
  /\ gradeAccepted
  /\ userState' = userState
  /\ records' = Append(records, [cardId |-> currentWord, grade |-> e.text,
                                 shown |-> Len(displayed),
                                 status |-> "pending"])
  /\ Suspend(i, e, [Started(e) EXCEPT !.pc = "sink", !.page = currentWord,
                                      !.call = Len(records) + 1,
                                      !.nRecord = 1])
  /\ UNCHANGED <<envVars, cacheVars, audioFiles, currentWord, displayed,
                 fetchLog>>

\* A feedback button for a revealed word: the state goes back to
\* "NotUnderstood" and the callback awaits updateMemorizationStatus.
RecvGrade(i, e) ==
  /\ CanStart(i)
  /\ e.type = "text"
  /\ isValidButtonLabel(e.text)
  /\ e.text \in GradeLabels
  /\ gradeAccepted
  /\ userState' = "NotUnderstood"
  /\ records' = Append(records, [cardId |-> currentWord, grade |-> e.text,
                                 shown |-> Len(displayed),
                                 status |-> "pending"])
  /\ Suspend(i, e, [Started(e) EXCEPT !.pc = "sink", !.page = currentWord,
                                      !.call = Len(records) + 1,
                                      !.nRecord = 1])
  /\ UNCHANGED <<envVars, cacheVars, audioFiles, currentWord, displayed,
                 fetchLog>>

\* Variant: a failed update puts userState back to "Understood".
SinkDone_rollback(i, ok) ==
  /\ h[i].pc = "sink"
  /\ IF currentWord = Null
       THEN Finish(i, "thrown")
       ELSE Continue(i, [h[i] EXCEPT
                           !.pc = "reply", !.ok = ok,
                           !.nReply = h[i].nReply + 1,
                           !.reply = ReplyMsg(IF ok THEN "gradeOk"
                                                    ELSE "gradeFail",
                                              Null, FALSE, {"Next"})])
  /\ records' = [records EXCEPT
                  ![h[i].call].status = IF ok THEN "ok" ELSE "failed"]
  /\ userState' = IF ok THEN userState ELSE "Understood"
  /\ UNCHANGED <<envVars, cacheVars, audioFiles, currentWord, displayed,
                 fetchLog>>

\* updateMemorizationStatus settles (ok or thrown); both the success log
\* and the error log read currentWord, which throws when it is null.
SinkDone(i, ok) ==
  /\ h[i].pc = "sink"
  /\ IF currentWord = Null
       THEN Finish(i, "thrown")
       ELSE Continue(i, [h[i] EXCEPT
                           !.pc = "reply", !.ok = ok,
                           !.nReply = h[i].nReply + 1,
                           !.reply = ReplyMsg(IF ok THEN "gradeOk"
                                                    ELSE "gradeFail",
                                              Null, FALSE, {"Next"})])
  /\ records' = [records EXCEPT
                  ![h[i].call].status = IF ok THEN "ok" ELSE "failed"]
  /\ UNCHANGED <<envVars, cacheVars, audioFiles, sessionVars, displayed,
                 fetchLog>>

\* client.replyMessage resolves: the callback returns.
ReplyOk(i) ==
  /\ h[i].pc = "reply"
  /\ Finish(i, "ok")
  /\ UNCHANGED <<envVars, cacheVars, audioFiles, sessionVars, logVars>>

\* client.replyMessage rejects: the callback rejects.
ReplyFail(i) ==
  /\ h[i].pc = "reply"
  /\ Finish(i, "thrown")
  /\ UNCHANGED <<envVars, cacheVars, audioFiles, sessionVars, logVars>>

\* The status POST answers with when the callback i has settled.
postStatus(i) == IF h[i].pc = "fulfilled" THEN "Success" ELSE "Error"

\* Promise.all over the callbacks has settled: POST answers
\* {status: "Success"} when the callback returned and 500 {status: "Error"}
\* when it rejected, and the request is over.
Respond(i) ==
  /\ h[i].pc \in {"fulfilled", "rejected"}
  /\ h' = [h EXCEPT ![i] = IdleHandler]
  /\ postResponse' = postStatus(i)
  /\ UNCHANGED <<envVars, cacheVars, audioFiles, sessionVars, nEvents,
                 logVars>>

\* The callback i starts on the event e (any branch).
Receive(i, e) ==
  \/ RecvOther(i, e)
  \/ RecvUnsupportedNoWord(i, e)
  \/ RecvUnsupportedEcho(i, e)
  \/ RecvNextNoChatId(i, e)
  \/ RecvNextCached(i, e)
  \/ RecvNextRefill(i, e)
  \/ RecvMeaningIgnored(i, e)
  \/ RecvMeaning(i, e)
  \/ RecvGradeIgnored(i, e)
  \/ RecvGrade(i, e)

\* --------------------------------------------------------- specification
\* Events are delivered one at a time: the next event is received when the
\* callback of the previous one has returned or rejected.
Next ==
  \/ \E e \in Events : Quiescent /\ RecvOther(1, e)
  \/ \E e \in Events : Quiescent /\ RecvUnsupportedNoWord(1, e)
  \/ \E e \in Events : Quiescent /\ RecvUnsupportedEcho(1, e)
  \/ \E e \in Events : Quiescent /\ RecvNextNoChatId(1, e)
  \/ \E e \in Events : Quiescent /\ RecvNextCached(1, e)
  \/ \E e \in Events : Quiescent /\ RecvNextRefill(1, e)
  \/ \E e \in Events : Quiescent /\ RecvMeaningIgnored(1, e)
  \/ \E e \in Events : Quiescent /\ RecvMeaning(1, e)
  \/ \E e \in Events : Quiescent /\ RecvGradeIgnored(1, e)
  \/ \E e \in Events : Quiescent /\ RecvGrade(1, e)
  \/ \E i \in Handlers : FetchOk(i)
  \/ \E i \in Handlers : FetchFail(i)
  \/ \E i \in Handlers : NextResume(i)
  \/ \E i \in Handlers, ok \in BOOLEAN, wrote \in BOOLEAN :
       AudioDone(i, ok, wrote)
  \/ \E i \in Handlers, ok \in BOOLEAN : SinkDone(i, ok)
  \/ \E i \in Handlers : ReplyOk(i)
  \/ \E i \in Handlers : ReplyFail(i)
  \/ \E i \in Handlers : Respond(i)

Spec == Init /\ [][Next]_vars

\* Events are delivered in batches, one POST request per batch, and the
\* requests are handled one after another.  events.map starts the callbacks
\* of a batch one after the other, each running up to its first await,
\* before any of them is resumed; the callbacks then go on in the order
\* in which their awaited calls settle.
FreeSlot(i) == \A j \in Handlers : j < i => h[j].pc # "idle"

\* events.map is still starting callbacks: none has been resumed.
InMap == \A j \in Handlers : ~h[j].resumed

\* The events of one conversation that read or write the cache or change
\* the phase of a displayed word: the three buttons, from one user.
ConcEvents ==
  {e \in Events : e.userId = "U1" /\ e.text \in {"Next", "Meaning", "Good"}}

\* The databases of the batch runs: every page is full or empty, but the
\* first page may also hold a single card.
ConcDecks ==
  {d \in Decks : /\ Len(d[1]) \in {0, 1, MaxPageLen}
                 /\ \A k \in 2..Len(d) : Len(d[k]) \in {0, MaxPageLen}}

InitConc == Init /\ pages \in ConcDecks

\* The callback i of a batch starts on the event e.
BatchStart(i) == FreeSlot(i) /\ InMap

\* Variant: the callbacks are awaited with Promise.allSettled.
batchStatus_allSettled == "Success"

\* Promise.all rejects as soon as one callback rejects and resolves when
\* every callback has returned: POST answers 500 {status: "Error"} in the
\* first case and {status: "Success"} in the second.
batchStatus ==
  IF \E j \in Handlers : h[j].pc = "rejected" THEN "Error" ELSE "Success"

\* Every callback of the batch has settled: POST has answered and the
\* request is over.  (The answer is fixed by the first rejection; the
\* callbacks still suspended then run to their end all the same.)
RespondAll ==
  /\ h[1].pc # "idle"
  /\ \A j \in Handlers : h[j].pc \in {"idle", "fulfilled", "rejected"}
  /\ h' = [j \in Handlers |-> IdleHandler]
  /\ postResponse' = batchStatus
  /\ UNCHANGED <<envVars, cacheVars, audioFiles, sessionVars, nEvents,
                 logVars>>

NextConc ==
  \/ \E i \in Handlers, e \in ConcEvents :
       BatchStart(i) /\ RecvNextCached(i, e)
  \/ \E i \in Handlers, e \in ConcEvents :
       BatchStart(i) /\ RecvNextRefill(i, e)
  \/ \E i \in Handlers, e \in ConcEvents :
       BatchStart(i) /\ RecvMeaningIgnored(i, e)
  \/ \E i \in Handlers, e \in ConcEvents :
       BatchStart(i) /\ RecvMeaning(i, e)
  \/ \E i \in Handlers, e \in ConcEvents :
       BatchStart(i) /\ RecvGradeIgnored(i, e)
  \/ \E i \in Handlers, e \in ConcEvents :
       BatchStart(i) /\ RecvGrade(i, e)
  \/ \E i \in Handlers : FetchOk(i)
  \/ \E i \in Handlers : FetchFail(i)
  \/ \E i \in Handlers : NextResume(i)
  \/ \E i \in Handlers, ok \in BOOLEAN, wrote \in BOOLEAN :
       AudioDone(i, ok, wrote)
  \/ \E i \in Handlers, ok \in BOOLEAN : SinkDone(i, ok)
  \/ \E i \in Handlers : ReplyOk(i)
  \/ \E i \in Handlers : ReplyFail(i)
  \/ RespondAll

SpecConc == InitConc /\ [][NextConc]_vars

\* ------------------------------------------------- the audio endpoint
\* The header is wrong or missing: 403.
AudioForbidden(req) ==
  /\ audioRequest' = req
  /\ ~isValidApiKey(req)
  /\ audioResponse' = AudioResponse(403, Null)
  /\ UNCHANGED <<outputDirExists, ttsCalls, audioFiles>>

\* request.json() throws, or yields null, which cannot be destructured:
\* the catch answers 500.
AudioUnparsable(req) ==
  /\ audioRequest' = req
  /\ isValidApiKey(req)
  /\ ~req.parsed
  /\ audioResponse' = AudioResponse(500, Null)
  /\ UNCHANGED <<outputDirExists, ttsCalls, audioFiles>>

\* Variant: the output directory is created before the parameters are
\* validated.
AudioBadRequest_mkdirFirst(req) ==
  /\ audioRequest' = req
  /\ isValidApiKey(req)
  /\ req.parsed
  /\ invalidParam(req.text) \/ invalidParam(req.pageId)
  /\ outputDirExists' = TRUE
  /\ audioResponse' = AudioResponse(400, Null)
  /\ UNCHANGED <<ttsCalls, audioFiles>>

\* text or pageId is missing, falsy or not a string: 400.
AudioBadRequest(req) ==
  /\ audioRequest' = req
  /\ isValidApiKey(req)
  /\ req.parsed
  /\ invalidParam(req.text) \/ invalidParam(req.pageId)
  /\ audioResponse' = AudioResponse(400, Null)
  /\ UNCHANGED <<outputDirExists, ttsCalls, audioFiles>>

\* A valid request: the directory is created when missing, then
\* generateAudioFile calls synthesizeSpeech (tts: "audio", "noContent" or
\* "throws") and writes audio-<pageId>.mp3 (wrote: whether writeFile
\* succeeded); without a host header the handler throws after the file has
\* been written.  Every throw is answered 500.
AudioGenerate(req, tts, wrote) ==
  /\ audioRequest' = req
  /\ isValidApiKey(req)
  /\ req.parsed
  /\ ~invalidParam(req.text) /\ ~invalidParam(req.pageId)
  /\ ttsCalls < MaxTtsCalls
  /\ outputDirExists' = TRUE
  /\ ttsCalls' = ttsCalls + 1
  /\ IF tts = "audio" /\ wrote
       THEN /\ audioFiles' = audioFiles \cup {req.pageId.n}
            /\ audioResponse' = IF req.host
                                  THEN AudioResponse(200, req.pageId.n)
                                  ELSE AudioResponse(500, Null)
       ELSE /\ audioFiles' = audioFiles
            /\ audioResponse' = AudioResponse(500, Null)

webhookVars ==
  <<pages, data, nextCursor, currentIndex, userState, currentWord, h,
    nEvents, served, displayed, fetchLog, records, postResponse>>

\* What the audio endpoint leaves alone.
notEndpointVars == <<webhookVars, progressVars, formVars>>

\* The endpoint alone: the webhook route is loaded and receives nothing;
\* public/output may or may not exist yet.
InitAudio ==
  /\ InitWebhook
  /\ pages = DeckOf(<<MaxPageLen>>)
  /\ outputDirExists \in BOOLEAN
  /\ InitEndpoint
  /\ InitProgress
  /\ InitForm

NextAudio ==
  \/ \E req \in Requests : AudioForbidden(req) /\ UNCHANGED notEndpointVars
  \/ \E req \in Requests : AudioUnparsable(req) /\ UNCHANGED notEndpointVars
  \/ \E req \in Requests : AudioBadRequest(req) /\ UNCHANGED notEndpointVars
  \/ \E req \in Requests, tts \in {"audio", "noContent", "throws"},
        wrote \in BOOLEAN :
       AudioGenerate(req, tts, wrote) /\ UNCHANGED notEndpointVars

SpecAudio == InitAudio /\ [][NextAudio]_vars

\* ------------------------------------------- saveLearningProgress
\* Each action is one segment of a call between two awaits; a Firestore
\* operation takes effect when it settles.
\* A call starts: it awaits getDoc.
SaveStart(c, status) ==
  /\ savers[c].pc = "idle"
  /\ nSaves < MaxSaves
  /\ savers' = [savers EXCEPT ![c] = [pc |-> "getDoc",
                                      memorizedStatus |-> status,
                                      exists |-> FALSE]]
  /\ nSaves' = nSaves + 1
  /\ UNCHANGED <<progressDoc, nSaved>>

\* getDoc resolves: without a document the call awaits setDoc, with one it
\* awaits updateDoc.
GetDocDone(c) ==
  /\ savers[c].pc = "getDoc"
  /\ savers' = [savers EXCEPT
                  ![c].exists = progressDoc.exists,
                  ![c].pc = IF progressDoc.exists THEN "updateDoc"
                                                  ELSE "setDoc"]
  /\ UNCHANGED <<progressDoc, nSaved, nSaves>>

\* setDoc(..., {merge: true}) resolves: the fields it names are written,
\* over the values a document already there has; the call awaits updateDoc.
SetDocDone(c) ==
  /\ savers[c].pc = "setDoc"
  /\ progressDoc' = ZeroDoc
  /\ savers' = [savers EXCEPT ![c].pc = "updateDoc"]
  /\ UNCHANGED <<nSaved, nSaves>>

\* updateDoc resolves: increment(1) on totalStudied and on the counter of
\* the status; the call returns.
UpdateDocDone(c) ==
  /\ savers[c].pc = "updateDoc"
  /\ progressDoc.exists
  /\ progressDoc' =
       ProgressDoc(progressDoc.totalStudied + 1,
                   [progressDoc.memorized EXCEPT
                      ![savers[c].memorizedStatus] = @ + 1])
  /\ savers' = [savers EXCEPT ![c] = IdleSaver]
  /\ nSaved' = nSaved + 1
  /\ UNCHANGED nSaves

\* getDoc, setDoc or updateDoc rejects: the call throws "Failed to save
\* learning progress."
SaveFails(c) ==
  /\ savers[c].pc \in {"getDoc", "setDoc", "updateDoc"}
  /\ savers' = [savers EXCEPT ![c] = IdleSaver]
  /\ UNCHANGED <<progressDoc, nSaved, nSaves>>

\* What saveLearningProgress leaves alone.
notProgressVars == <<webhookVars, audioFiles, endpointVars, formVars>>

InitSaves ==
  /\ InitWebhook
  /\ pages = DeckOf(<<MaxPageLen>>)
  /\ outputDirExists = TRUE
  /\ InitEndpoint
  /\ InitProgress
  /\ InitForm

NextSaves ==
  \/ \E c \in Savers, status \in GradeLabels :
       SaveStart(c, status) /\ UNCHANGED notProgressVars
  \/ \E c \in Savers : GetDocDone(c) /\ UNCHANGED notProgressVars
  \/ \E c \in Savers : SetDocDone(c) /\ UNCHANGED notProgressVars
  \/ \E c \in Savers : UpdateDocDone(c) /\ UNCHANGED notProgressVars
  \/ \E c \in Savers : SaveFails(c) /\ UNCHANGED notProgressVars

SpecSaves == InitSaves /\ [][NextSaves]_vars

\* ----------------------------------------------------- LoginForm
\* The form is submitted with the submit button, which is disabled while
\* isLoading is true.
CanSubmit == formPc = "idle" /\ ~isLoading /\ nSubmits < MaxSubmits

\* handleSubmit, email or password empty after trimming: alert and return.
SubmitEmpty(email, password) ==
  /\ CanSubmit
  /\ isLoading' = TRUE
  /\ trim(email) = <<>> \/ trim(password) = <<>>
  /\ lastAlert' = "required"
  /\ nSubmits' = nSubmits + 1
  /\ UNCHANGED <<formPc, loginArgs>>

\* handleSubmit, the trimmed email does not match the pattern: alert and
\* return.
SubmitMalformed(email, password) ==
  /\ CanSubmit
  /\ isLoading' = TRUE
  /\ trim(email) # <<>> /\ trim(password) # <<>>
  /\ ~emailRegexTest(trim(email))
  /\ lastAlert' = "invalid"
  /\ nSubmits' = nSubmits + 1
  /\ UNCHANGED <<formPc, loginArgs>>

\* handleSubmit, valid input: it awaits onSubmit(email, password).
SubmitValid(email, password) ==
  /\ CanSubmit
  /\ isLoading' = TRUE
  /\ trim(email) # <<>> /\ trim(password) # <<>>
  /\ emailRegexTest(trim(email))
  /\ formPc' = "onSubmit"
  /\ loginArgs' = [email |-> trim(email), password |-> trim(password)]
  /\ nSubmits' = nSubmits + 1
  /\ UNCHANGED lastAlert

\* onSubmit resolves, or rejects and the catch logs: finally runs
\* setIsLoading(false).
OnSubmitSettles(ok) ==
  /\ formPc = "onSubmit"
  /\ formPc' = "idle"
  /\ isLoading' = FALSE
  /\ loginArgs' = NoArgs
  /\ UNCHANGED <<lastAlert, nSubmits>>

\* What the form leaves alone.
notFormVars == <<webhookVars, audioFiles, endpointVars, progressVars>>

NextForm ==
  \/ \E email \in Emails, password \in Passwords :
       SubmitEmpty(email, password) /\ UNCHANGED notFormVars
  \/ \E email \in Emails, password \in Passwords :
       SubmitMalformed(email, password) /\ UNCHANGED notFormVars
  \/ \E email \in Emails, password \in Passwords :
       SubmitValid(email, password) /\ UNCHANGED notFormVars
  \/ \E ok \in BOOLEAN : OnSubmitSettles(ok) /\ UNCHANGED notFormVars

\* The form alone.
InitLogin ==
  /\ InitWebhook
  /\ pages = DeckOf(<<MaxPageLen>>)
  /\ outputDirExists = TRUE
  /\ InitEndpoint
  /\ InitProgress
  /\ InitForm

SpecForm == InitLogin /\ [][NextForm]_vars

TypeOK ==
  /\ Len(pages) \in 1..MaxPages
  /\ currentIndex \in 0..MaxPageLen
  /\ userState \in {"NotDisplayed", "NotUnderstood", "Understood"}
  /\ nEvents \in 0..MaxEvents
  /\ \A i \in Handlers :
       h[i].pc \in {"idle", "fetch", "gotPage", "audio", "sink", "reply",
                    "fulfilled", "rejected"}
  /\ postResponse \in {"none", "Success", "Error"}

\* ----------------------------------------------------------- properties
\* The callback i starts on a "Next" event that reaches getNextPage.
AdvanceStarts(i) == h[i].pc = "idle" /\ h'[i].pc \in {"fetch", "gotPage"}

\* The fetch awaited by the callback i fails in this step.
FetchFails(i) == h[i].pc = "fetch" /\ h'[i].pc = "rejected"

\* The cache is exhausted and its cursor is the null the last fetch returned.
Terminal ==
  /\ cacheExhausted
  /\ nextCursor = Null
  /\ fetchLog # <<>>
  /\ fetchLog[Len(fetchLog)].status = "ok"

\* C1: whenever no event is being processed, currentWord is null if and
\* only if userState is "NotDisplayed".
C1_SessionInvariant ==
  Quiescent => ((currentWord = Null) <=> (userState = "NotDisplayed"))

\* C2: a "Next" that finds the cache exhausted and the cursor null as the
\* last fetch returned it makes getNextPage return null without a fetch.
C2_TerminalServesNone ==
  [][\A i \in Handlers :
       (Terminal /\ AdvanceStarts(i))
         => /\ fetchLog' = fetchLog
            /\ h'[i].pc = "gotPage"
            /\ h'[i].page = Null]_vars

\* C3: when the fetch of a refill fails, data, nextCursor and currentIndex
\* are what they were when getNextPage was called.
C3_FetchFailureKeepsCache ==
  [][\A i \in Handlers :
       FetchFails(i)
         => /\ data' = h[i].pre.data
            /\ nextCursor' = h[i].pre.nextCursor
            /\ currentIndex' = h[i].pre.currentIndex]_vars

\* C4: a "Next" whose fetch fails is answered with exactly one "try again"
\* reply.
C4_FetchFailureReplied ==
  [][\A i \in Handlers :
       FetchFails(i)
         => /\ h'[i].nReply = 1
            /\ h'[i].reply.kind = "tryAgain"]_vars

\* C5: the cards getNextPage has returned since the last refill are exactly
\* data[0], data[1], ... up to currentIndex, in that order, the card a call
\* resolves to is the one at the index it advanced over, and a refill
\* starts only when every card of the buffer has been returned.
C5_ServedInFetchOrder ==
  /\ currentIndex <= Len(data)
  /\ served = SubSeq(data, 1, currentIndex)
  /\ [][/\ currentIndex' <= Len(data')
        /\ served' = SubSeq(data', 1, currentIndex')
        /\ \A i \in Handlers :
             /\ (h'[i].pc = "gotPage" /\ h'[i].page # Null)
                  => h'[i].page = data'[currentIndex']
             /\ (h[i].pc = "idle" /\ h'[i].pc = "fetch")
                  => served = data]_vars

C5_Witness ==
  /\ Len(served) = 2
  /\ served[1] # served[2]
  /\ h[1].pc = "gotPage"
  /\ h[1].page = served[2]

\* C6: a getNextPage call issues at most one fetch, and none when it is
\* called with currentIndex < data.length.
C6_AtMostOneFetchPerCall ==
  \A i \in Handlers :
    h[i].pc # "idle"
      => /\ h[i].nFetch <= 1
         /\ Len(fetchLog) = h[i].pre.nFetched + h[i].nFetch
         /\ h[i].pre.currentIndex < Len(h[i].pre.data) => h[i].nFetch = 0

C6_Witness ==
  /\ h[1].pc = "gotPage"
  /\ h[1].pre.currentIndex < Len(h[1].pre.data)
  /\ h[1].nFetch = 0
  /\ Len(fetchLog) = 1

\* C7: no card is displayed by two different "Next" events.
C7_AtMostOnceDelivery ==
  \A j, k \in 1..Len(displayed) : j < k => displayed[j] # displayed[k]

\* C8: a "Next" for which getNextPage returns null leaves userState
\* "NotDisplayed" and currentWord null and sends the "completed" reply.
C8_NoneMovesToIdle ==
  [][\A i \in Handlers :
       (h[i].pc = "gotPage" /\ h[i].page = Null /\ h'[i].pc = "reply")
         => /\ userState' = "NotDisplayed"
            /\ currentWord' = Null
            /\ h'[i].nReply = 1
            /\ h'[i].reply = ReplyMsg("complete", Null, FALSE, {})]_vars

\* C9: once a "Next" for which getNextPage returned a card has sent its
\* reply, currentWord is that card (the one the cache index advanced over),
\* userState is "NotUnderstood" and the reply carries that card's phrase,
\* whatever userState was before.
C9_AdvanceDisplaysCard ==
  \A i \in Handlers :
    (h[i].pc = "reply" /\ h[i].text = "Next" /\ h[i].page # Null)
      => /\ h[i].page = data[currentIndex]
         /\ currentWord = h[i].page
         /\ userState = "NotUnderstood"
         /\ h[i].nReply = 1
         /\ h[i].reply = ReplyMsg("phrase", h[i].page, FALSE,
                                   {"Next", "Meaning"})
         /\ displayed # <<>> /\ displayed[Len(displayed)] = h[i].page

C9_Witness ==
  /\ h[1].pc = "reply"
  /\ h[1].text = "Next"
  /\ h[1].page # Null
  /\ h[1].pre.userState = "Understood"
  /\ h[1].pre.currentWord # h[1].page
  /\ currentWord = h[1].page

\* The callback i has left the cache, the session, the audio files and the
\* logs as it found them.
NothingDone(i) ==
  /\ h[i].nFetch = 0 /\ h[i].nAudio = 0 /\ h[i].nRecord = 0
  /\ h[i].nReply = 0
  /\ Snapshot = h[i].pre

\* C10: a feedback button received while userState is "NotDisplayed" or
\* "NotUnderstood" changes nothing: the callback returns at once with no
\* update call, no reply and no fetch, and the session and the cache stay
\* as they were.
C10_GradeIgnoredUnlessRevealed ==
  \A i \in Handlers :
    (/\ h[i].pc # "idle"
     /\ h[i].text \in GradeLabels
     /\ h[i].pre.userState \in {"NotDisplayed", "NotUnderstood"})
      => h[i].pc = "fulfilled" /\ NothingDone(i)

C10_Witness ==
  /\ h[1].pc = "fulfilled"
  /\ h[1].text = "Good"
  /\ h[1].pre.userState = "NotUnderstood"
  /\ h[1].pre.currentWord # Null
  /\ nEvents = 2
  /\ records = <<>>

\* C11: "Meaning" received while userState is "NotDisplayed" or "Understood"
\* (or while no word is displayed) changes nothing: the callback returns at
\* once with no audio generation, no reply, no fetch and no update call, and
\* userState, currentWord, the cache and the audio files stay as they were.
C11_RevealIgnoredUnlessShown ==
  \A i \in Handlers :
    (/\ h[i].pc # "idle"
     /\ h[i].text = "Meaning"
     /\ \/ h[i].pre.userState \in {"NotDisplayed", "Understood"}
        \/ h[i].pre.currentWord = Null)
      => h[i].pc = "fulfilled" /\ NothingDone(i)

C11_Witness ==
  /\ h[1].pc = "fulfilled"
  /\ h[1].text = "Meaning"
  /\ h[1].pre.userState = "Understood"
  /\ h[1].pre.currentWord # Null
  /\ NothingDone(1)

\* The callback i has made no fetch and no update call and has left the
\* cache (data, nextCursor, currentIndex) as it found it.
CacheAndSinkUntouched(i) ==
  /\ h[i].nFetch = 0 /\ h[i].nRecord = 0
  /\ Len(fetchLog) = h[i].pre.nFetched
  /\ Len(records) = h[i].pre.nRecorded
  /\ data = h[i].pre.data
  /\ nextCursor = h[i].pre.nextCursor
  /\ currentIndex = h[i].pre.currentIndex

\* C12: "Meaning" received while userState is "NotUnderstood" and a word is
\* displayed sets userState to "Understood", keeps currentWord, makes no
\* update call, leaves the cache alone and, once the audio call has
\* settled, sends one reply whose text messages render that word.
C12_RevealInShown ==
  \A i \in Handlers :
    (/\ h[i].pc # "idle"
     /\ h[i].text = "Meaning"
     /\ h[i].pre.userState = "NotUnderstood"
     /\ h[i].pre.currentWord # Null)
      => /\ userState = "Understood"
         /\ currentWord = h[i].pre.currentWord
         /\ CacheAndSinkUntouched(i)
         /\ h[i].pc \in {"audio", "reply", "fulfilled", "rejected"}
         /\ h[i].pc = "audio" => h[i].nReply = 0
         /\ h[i].pc # "audio"
              => /\ h[i].nReply = 1
                 /\ h[i].reply.kind = "detail"
                 /\ h[i].reply.word = h[i].pre.currentWord

C12_Witness ==
  /\ h[1].pc = "fulfilled"
  /\ h[1].text = "Meaning"
  /\ h[1].pre.userState = "NotUnderstood"
  /\ h[1].reply.kind = "detail"
  /\ h[1].reply.word = currentWord
  /\ userState = "Understood"

\* C13: a feedback button received while userState is "Understood" and a
\* word is displayed makes exactly one updateMemorizationStatus call, with
\* the id of currentWord (the word the last "Next" displayed) and the label
\* that was pressed; from then on userState is "NotUnderstood" and
\* currentWord is the same word.
C13_GradeInRevealed ==
  \A i \in Handlers :
    (/\ h[i].pc # "idle"
     /\ h[i].text \in GradeLabels
     /\ h[i].pre.userState = "Understood"
     /\ h[i].pre.currentWord # Null)
      => /\ h[i].nRecord = 1
         /\ Len(records) = h[i].pre.nRecorded + 1
         /\ records[Len(records)].cardId = h[i].pre.currentWord
         /\ records[Len(records)].grade = h[i].text
         /\ displayed # <<>>
         /\ displayed[Len(displayed)] = h[i].pre.currentWord
         /\ userState = "NotUnderstood"
         /\ currentWord = h[i].pre.currentWord

C13_Witness ==
  /\ h[1].pc = "fulfilled"
  /\ h[1].text = "So So"
  /\ h[1].pre.userState = "Understood"
  /\ records = <<[cardId |-> currentWord, grade |-> "So So", shown |-> 1,
                  status |-> "ok"]>>
  /\ userState = "NotUnderstood"

\* The callback i handles "Next" and the session it found is the one a
\* failed update left: the last update call failed, it was made for the
\* word that is still displayed, and userState is "NotUnderstood".
AfterFailedGrade(i) ==
  /\ h[i].pc # "idle"
  /\ h[i].text = "Next"
  /\ h[i].reply.kind # "noChatId"
  /\ h[i].pre.nRecorded > 0
  /\ records[h[i].pre.nRecorded].status = "failed"
  /\ records[h[i].pre.nRecorded].cardId = h[i].pre.currentWord
  /\ h[i].pre.userState = "NotUnderstood"

\* C14: once updateMemorizationStatus has settled for an accepted feedback
\* button, userState is "NotUnderstood", currentWord and the cache are as
\* the callback found them, whether the call succeeded or failed, and the
\* one reply is the success text exactly when it succeeded and the failure
\* text otherwise; a "Next" that follows a failed update is handled as any
\* other: with a card left in the buffer it displays that card (not the
\* graded one), and with none left it fetches.
C14_SinkFailureNoRollback ==
  \A i \in Handlers :
    /\ (/\ h[i].pc \in {"reply", "fulfilled", "rejected"}
        /\ h[i].text \in GradeLabels
        /\ h[i].nRecord = 1)
         => /\ userState = "NotUnderstood"
            /\ currentWord = h[i].pre.currentWord
            /\ data = h[i].pre.data
            /\ nextCursor = h[i].pre.nextCursor
            /\ currentIndex = h[i].pre.currentIndex
            /\ h[i].nFetch = 0
            /\ h[i].nReply = 1
            /\ records[h[i].call].status \in {"ok", "failed"}
            /\ h[i].reply.kind = IF records[h[i].call].status = "ok"
                                    THEN "gradeOk" ELSE "gradeFail"
    /\ AfterFailedGrade(i)
         => IF h[i].pre.currentIndex < Len(h[i].pre.data)
              THEN /\ h[i].nFetch = 0
                   /\ h[i].page = h[i].pre.data[h[i].pre.currentIndex + 1]
                   /\ h[i].page # h[i].pre.currentWord
                   /\ h[i].pc # "gotPage"
                        => /\ currentWord = h[i].page
                           /\ h[i].reply.kind = "phrase"
                           /\ h[i].reply.word = h[i].page
              ELSE h[i].nFetch = 1

C14_Witness ==
  /\ AfterFailedGrade(1)
  /\ h[1].pc = "reply"
  /\ h[1].reply.kind = "phrase"
  /\ currentWord # h[1].pre.currentWord
  /\ records[1].grade = "Never Better"

\* The callback i found a word displayed for which an update call had
\* already been made, no "Next" having displayed a card since.
GradedAlready(i) ==
  /\ h[i].pc # "idle"
  /\ h[i].pre.currentWord # Null
  /\ h[i].pre.nRecorded > 0
  /\ records[h[i].pre.nRecorded].shown = Len(displayed)
  /\ records[h[i].pre.nRecorded].cardId = h[i].pre.currentWord

\* C15: once a feedback button has been accepted for the displayed word,
\* "Meaning" and the feedback buttons are ignored until a "Next" (no
\* audio, no reply, no second update call), while an unsupported text is
\* still answered with the phrase of that word.
C15_IgnoredAfterGrade ==
  \A i \in Handlers :
    GradedAlready(i)
      => /\ h[i].text \in {"Meaning"} \cup GradeLabels
              => h[i].pc = "fulfilled" /\ NothingDone(i)
         /\ h[i].text \in OtherTexts
              => /\ h[i].nReply = 1
                 /\ h[i].reply.kind = "echo"
                 /\ h[i].reply.word = h[i].pre.currentWord

\* C16: a text that is no button label, received while currentWord is null,
\* sets userState to "NotDisplayed" and makes exactly one reply, the one
\* asking for "Next"; no fetch, no update call, the cache is untouched.
C16_UnsupportedNoWord ==
  \A i \in Handlers :
    (/\ h[i].pc # "idle"
     /\ h[i].text \in OtherTexts
     /\ h[i].pre.currentWord = Null)
      => /\ userState = "NotDisplayed"
         /\ currentWord = Null
         /\ h[i].nReply = 1
         /\ h[i].reply = ReplyMsg("unsupported", Null, FALSE, {"Next"})
         /\ CacheAndSinkUntouched(i)
         /\ audioFiles = h[i].pre.audioFiles

C16_Witness ==
  /\ h[1].pc = "fulfilled"
  /\ h[1].text \in OtherTexts
  /\ h[1].pre.currentWord = Null
  /\ h[1].pre.userState = "NotUnderstood"
  /\ userState = "NotDisplayed"
  /\ h[1].reply.kind = "unsupported"

\* C17: a text that is no button label, received while a word is displayed,
\* is answered with the phrase of that word; userState, currentWord and the
\* cache stay as they were, in "NotUnderstood" and in "Understood" alike.
C17_UnsupportedEcho ==
  \A i \in Handlers :
    (/\ h[i].pc # "idle"
     /\ h[i].text \in OtherTexts
     /\ h[i].pre.currentWord # Null)
      => /\ h[i].nReply = 1
         /\ h[i].reply = ReplyMsg("echo", h[i].pre.currentWord, FALSE,
                                   {"Next", "Meaning"})
         /\ userState = h[i].pre.userState
         /\ userState \in {"NotUnderstood", "Understood"}
         /\ currentWord = h[i].pre.currentWord
         /\ CacheAndSinkUntouched(i)
         /\ audioFiles = h[i].pre.audioFiles

C17_Witness ==
  /\ h[1].pc = "fulfilled"
  /\ h[1].text \in OtherTexts
  /\ h[1].pre.userState = "Understood"
  /\ userState = "Understood"
  /\ h[1].reply.kind = "echo"
  /\ h[1].reply.word = currentWord

\* The state table ignores the event of the callback i: "Meaning" unless a
\* word is displayed in "NotUnderstood", a feedback button unless a word is
\* displayed in "Understood".
SilentlyIgnored(i) ==
  \/ /\ h[i].text = "Meaning"
     /\ ~(h[i].pre.userState = "NotUnderstood" /\ h[i].pre.currentWord # Null)
  \/ /\ h[i].text \in GradeLabels
     /\ ~(h[i].pre.userState = "Understood" /\ h[i].pre.currentWord # Null)

\* C18: when the callback of a text event has returned or rejected it has
\* made exactly one client.replyMessage call, unless the event was a
\* "Meaning" or a feedback button the state table ignores, in which case it
\* has made none.
C18_ExactlyOneReply ==
  \A i \in Handlers :
    (h[i].pc \in {"fulfilled", "rejected"} /\ h[i].text \in Texts)
      => h[i].nReply = IF SilentlyIgnored(i) THEN 0 ELSE 1

\* C19: when generateAudioFileViaApi resolves to false for an accepted
\* "Meaning", userState is "Understood", the callback goes on to its one
\* reply, and that reply is the text batch for the displayed word without
\* the audio message; the audio message is there only when the call
\* resolved to true.
C19_AudioFailureDegrades ==
  \A i \in Handlers :
    (/\ h[i].pc \notin {"idle", "audio"}
     /\ h[i].text = "Meaning"
     /\ ~SilentlyIgnored(i))
      => /\ userState = "Understood"
         /\ currentWord = h[i].pre.currentWord
         /\ h[i].nReply = 1
         /\ h[i].reply = ReplyMsg("detail", h[i].pre.currentWord, h[i].ok,
                                   {"Next"} \cup GradeLabels)
         /\ h[i].reply.audio => h[i].pre.currentWord \in audioFiles

C19_Witness ==
  /\ h[1].pc = "fulfilled"
  /\ h[1].text = "Meaning"
  /\ ~h[1].ok
  /\ userState = "Understood"
  /\ h[1].reply.kind = "detail"
  /\ ~h[1].reply.audio
  /\ h[1].reply.word = currentWord

\* C20: a step of a callback that handles an event of one user leaves the
\* session (userState, currentWord) of every other user unchanged.
C20_ConversationIsolation ==
  [][\A i \in Handlers, c \in Users :
       (h'[i] # h[i] /\ h'[i].pc # "idle" /\ h'[i].chat # c)
         => sessionOf(c)' = sessionOf(c)]_vars

\* The callback i is suspended at an await.
Suspended(i) == h[i].pc \in {"fetch", "gotPage", "audio", "sink", "reply"}

\* C21: a callback starts on an event of a conversation (and so reads
\* userState, currentWord or the cache) only when no other callback for that
\* conversation is suspended at an await.
C21_Serialized ==
  [][\A i, j \in Handlers :
       (h[i].pc = "idle" /\ h'[i].pc # "idle" /\ j # i /\ Suspended(j))
         => h[j].chat # h'[i].chat]_vars

\* C22: 0 <= cache.currentIndex <= cache.data.length in every state, also
\* while getNextPage calls are suspended at their fetch and after calls
\* have interleaved.
C22_IndexWithinBuffer ==
  currentIndex >= 0 /\ currentIndex <= Len(data)

C22_Witness ==
  /\ h[1].pc = "gotPage"
  /\ h[1].nFetch = 1
  /\ h[2].pc = "fetch"
  /\ currentIndex = 1
  /\ Len(data) > 1

\* What cache.hasMore() returned when the callback i started.
hadMore(i) ==
  \/ h[i].pre.currentIndex < Len(h[i].pre.data)
  \/ h[i].pre.nextCursor # Null

\* C23: when getNextPage has resolved for a callback, it resolved to null if
\* hasMore() was false when it was called, and hasMore() was true if it
\* resolved to a card.
C23_HasMoreTellsCompletion ==
  \A i \in Handlers :
    h[i].pc = "gotPage"
      => /\ ~hadMore(i) => h[i].page = Null
         /\ h[i].page # Null => hadMore(i)

\* C24: with a database whose only page is empty, the first "Next" to reach
\* the cache makes getNextPage resolve to null, leaves userState
\* "NotDisplayed" and currentWord null, and sends the "completed" reply.
C24_EmptyDeck ==
  \A i \in Handlers :
    (/\ h[i].pc \notin {"idle", "fetch"}
     /\ h[i].text = "Next"
     /\ pages = <<<<>>>>
     /\ h[i].nFetch = 1
     /\ h[i].pre.nFetched = 0
     /\ fetchLog[h[i].call].status = "ok")
      => /\ h[i].page = Null
         /\ userState = "NotDisplayed"
         /\ h[i].pc # "gotPage"
              => /\ currentWord = Null
                 /\ h[i].nReply = 1
                 /\ h[i].reply = ReplyMsg("complete", Null, FALSE, {})

C24_Witness ==
  /\ pages = <<<<>>>>
  /\ h[1].pc = "fulfilled"
  /\ h[1].text = "Next"
  /\ h[1].pre.nFetched = 0
  /\ h[1].reply.kind = "complete"
  /\ userState = "NotDisplayed"
  /\ currentWord = Null

\* What the callback i has done shows which branch of the handler it took.
AdvanceTaken(i) ==
  \/ h[i].pc \in {"fetch", "gotPage"}
  \/ h[i].nFetch = 1
  \/ h[i].reply.kind \in {"noChatId", "phrase", "complete"}

UnsupportedTaken(i) == h[i].reply.kind \in {"unsupported", "echo"}

\* C25: a text is handled as "Next" exactly when it is the string "Next",
\* as unsupported exactly when it is none of the six labels (so "next" and
\* "Good " are unsupported); audio is generated only for "Meaning" and an
\* update call is made only for one of the four feedback labels, with that
\* label; "Meaning" and the feedback labels do so whenever the state admits
\* them.  No text is handled in two ways.
C25_ExactMatchClassification ==
  \A i \in Handlers :
    (h[i].pc # "idle" /\ h[i].text \in Texts)
      => /\ AdvanceTaken(i) <=> h[i].text = "Next"
         /\ UnsupportedTaken(i)
              <=> h[i].text \notin {"Next", "Meaning", "Never Better", "Good",
                                    "So So", "Not At All"}
         /\ h[i].nAudio = 1 => h[i].text = "Meaning"
         /\ h[i].nRecord = 1
              => /\ h[i].text \in {"Never Better", "Good", "So So",
                                    "Not At All"}
                 /\ records[h[i].call].grade = h[i].text
         /\ (h[i].text = "Meaning" /\ ~SilentlyIgnored(i)) => h[i].nAudio = 1
         /\ (h[i].text \in {"Never Better", "Good", "So So", "Not At All"}
               /\ ~SilentlyIgnored(i)) => h[i].nRecord = 1
         /\ ~(AdvanceTaken(i) /\ UnsupportedTaken(i))
         /\ ~(h[i].nAudio = 1 /\ h[i].nRecord = 1)
         /\ (h[i].nAudio = 1 \/ h[i].nRecord = 1)
              => ~AdvanceTaken(i) /\ ~UnsupportedTaken(i)

C25_Witness ==
  /\ h[1].pc = "fulfilled"
  /\ h[1].text = "Good "
  /\ h[1].pre.userState = "Understood"
  /\ h[1].reply.kind = "echo"
  /\ h[1].nRecord = 0
  /\ records = <<>>

\* cache.reset() runs in this step (getNextPage has found the cache
\* exhausted and goes on to its fetch).
ResetRuns(i) == h[i].pc = "idle" /\ h'[i].pc = "fetch"

C27_NoRetries ==
  \A i \in Handlers :
    h[i].pc # "idle"
      => /\ h[i].nFetch <= 1 /\ h[i].nAudio <= 1 /\ h[i].nRecord <= 1
         /\ Len(fetchLog) = h[i].pre.nFetched + h[i].nFetch
         /\ Len(records) = h[i].pre.nRecorded + h[i].nRecord
         /\ (h[i].nFetch = 1 /\ fetchLog[h[i].call].status = "failed")
              => h[i].pc = "rejected"
         /\ (h[i].nRecord = 1 /\ records[h[i].call].status = "failed")
              => h[i].pc \in {"reply", "fulfilled", "rejected"}
         /\ (h[i].nAudio = 1 /\ h[i].pc # "audio")
              => h[i].pc \in {"reply", "fulfilled", "rejected"}

C27_Witness ==
  /\ h[1].pc = "rejected"
  /\ h[1].nFetch = 1
  /\ h[1].pre.nFetched = 1
  /\ Len(fetchLog) = 2
  /\ fetchLog[2].status = "failed"

\* C28: the first fetch is made with no cursor, and as long as no fetch has
\* failed each later fetch is made with the next_cursor the fetch before it
\* returned.
C28_CursorContinuity ==
  \A k \in 1..Len(fetchLog) :
    /\ k = 1 => fetchLog[k].cursor = Null
    /\ (k > 1 /\ \A j \in 1..(k - 1) : fetchLog[j].status = "ok")
         => fetchLog[k].cursor
              = getFormattedDatabasePages(fetchLog[k - 1].cursor).next_cursor

C28_Witness ==
  /\ Len(pages) = 2
  /\ pages[2] # <<>>
  /\ Len(fetchLog) = 2
  /\ fetchLog[1].status = "ok"
  /\ fetchLog[2].cursor # Null
  /\ fetchLog[2].status = "ok"
  /\ h[1].pc = "gotPage"
  /\ h[1].page = pages[2][1]

\* C29: when the fetch of a refill has succeeded, data is the fetched page
\* and nextCursor the cursor returned with it; for a non-empty page
\* getNextPage resolves to its first card and currentIndex is 1, for an
\* empty page it resolves to null and currentIndex is 0; and a call that
\* finds the cache left by an empty page fetches with the stored cursor.
C29_RefillResult ==
  \A i \in Handlers :
    /\ (h[i].pc = "gotPage" /\ h[i].nFetch = 1)
         => LET c == fetchLog[h[i].call].cursor
                k == IF c = Null THEN 1 ELSE c
            IN /\ data = pages[k]
               /\ nextCursor = IF k < Len(pages) THEN k + 1 ELSE Null
               /\ IF pages[k] = <<>>
                    THEN h[i].page = Null /\ currentIndex = 0
                    ELSE h[i].page = pages[k][1] /\ currentIndex = 1
    /\ (h[i].pc = "fetch" /\ h[i].pre.data = <<>>)
         => /\ h[i].saved = h[i].pre.nextCursor
            /\ fetchLog[h[i].call].cursor = h[i].pre.nextCursor

C29_Witness ==
  /\ h[1].pc = "fetch"
  /\ h[1].pre.data = <<>>
  /\ h[1].pre.nextCursor # Null
  /\ h[1].pre.nFetched = 1
  /\ fetchLog[1].status = "ok"
  /\ fetchLog[2].cursor = h[1].pre.nextCursor

\* The callbacks i and j handle two consecutive events with the same text
\* for the same displayed word, and both are in progress.
DuplicateTap(i, j) ==
  /\ i # j
  /\ h[i].pc # "idle" /\ h[j].pc # "idle"
  /\ h[j].seq = h[i].seq + 1
  /\ h[j].text = h[i].text
  /\ h[i].pre.currentWord # Null
  /\ h[j].pre.currentWord = h[i].pre.currentWord
  /\ h[j].pre.nDisplayed = h[i].pre.nDisplayed

\* C30: of two feedback buttons pressed for the same word in "Understood"
\* and handled concurrently, only the first makes an update call; of two
\* "Meaning" for the same word in "NotUnderstood", only the first requests
\* audio and replies; the second finds the state already changed and
\* returns at once.
C30_DuplicateTaps ==
  \A i, j \in Handlers :
    DuplicateTap(i, j)
      => /\ (h[i].text \in GradeLabels /\ h[i].pre.userState = "Understood")
              => /\ h[i].nRecord = 1
                 /\ h[j].nRecord = 0
                 /\ h[j].pre.userState = "NotUnderstood"
                 /\ h[j].pc = "fulfilled" /\ h[j].nReply = 0
         /\ (h[i].text = "Meaning" /\ h[i].pre.userState = "NotUnderstood")
              => /\ h[i].nAudio = 1
                 /\ h[j].nAudio = 0
                 /\ h[j].pre.userState = "Understood"
                 /\ h[j].pc = "fulfilled" /\ h[j].nReply = 0

C30_Witness ==
  /\ DuplicateTap(1, 2)
  /\ h[1].text = "Good"
  /\ h[1].pc = "sink"
  /\ h[2].pc = "fulfilled"
  /\ h[2].nRecord = 0
  /\ Len(records) = 1

\* The callbacks i and j handle two "Next" events at the same time: i found
\* the cache exhausted and j started while i was suspended at its fetch.
ConcurrentRefill(i, j) ==
  /\ i # j
  /\ h[i].pc # "idle" /\ h[j].pc # "idle"
  /\ h[i].text = "Next" /\ h[j].text = "Next"
  /\ h[i].nFetch = 1
  /\ h[j].seq = h[i].seq + 1
  /\ h[j].pre.nFetched = h[i].pre.nFetched + 1

\* C31: of two "Next" events in flight at the same time while the cache is
\* exhausted, only the first calls getFormattedDatabasePages, and the two
\* events display two different cards.
C31_OneFetchTwoCards ==
  \A i, j \in Handlers :
    ConcurrentRefill(i, j)
      => /\ h[j].nFetch = 0
         /\ (/\ h[i].pc \in {"reply", "fulfilled"}
             /\ h[j].pc \in {"reply", "fulfilled"}
             /\ h[i].page # Null /\ h[j].page # Null)
              => h[i].page # h[j].page

\* updateMemorizationStatus settles for the callback i in this step, after
\* the callback j of a later "Next" of the same user has set currentWord.
SinkAfterAdvance(i, j) ==
  /\ h[i].pc = "sink" /\ h'[i].pc # "sink"
  /\ h[j].text = "Next"
  /\ h[j].chat = h[i].chat
  /\ h[j].seq > h[i].seq
  /\ h[j].pc \in {"reply", "fulfilled", "rejected"}
  /\ h[j].nReply = 1

\* C32: when updateMemorizationStatus settles for a feedback button after a
\* "Next" of the same user has completed, the update call was made for the
\* word that was displayed when the button was accepted, and the callback
\* goes on to its one reply (success or failure text), whatever currentWord
\* is by then.
C32_GradeSurvivesAdvance ==
  [][\A i, j \in Handlers :
       SinkAfterAdvance(i, j)
         => /\ records'[h[i].call].cardId = h[i].pre.currentWord
            /\ h'[i].pc = "reply"
            /\ h'[i].nReply = 1
            /\ h'[i].reply.kind \in {"gradeOk", "gradeFail"}]_vars

\* C33: a "Next" whose source carries no user id is answered with one error
\* reply and changes nothing: no getNextPage call (no fetch, no cache reset,
\* no card served), no update call, and userState, currentWord, the cache
\* and the audio files are as the callback found them.
C33_AdvanceWithoutUserId ==
  \A i \in Handlers :
    (h[i].pc # "idle" /\ h[i].text = "Next" /\ h[i].chat = NoUserId)
      => /\ h[i].pc \in {"reply", "fulfilled", "rejected"}
         /\ h[i].nReply = 1
         /\ h[i].reply = ReplyMsg("noChatId", Null, FALSE, {})
         /\ h[i].nFetch = 0 /\ h[i].nAudio = 0 /\ h[i].nRecord = 0
         /\ h[i].page = Null
         /\ Snapshot = h[i].pre

C33_Witness ==
  /\ h[1].pc = "fulfilled"
  /\ h[1].text = "Next"
  /\ h[1].chat = NoUserId
  /\ h[1].reply.kind = "noChatId"
  /\ h[1].pre.userState = "Understood"
  /\ h[1].pre.currentIndex >= Len(h[1].pre.data)
  /\ h[1].pre.audioFiles # {}
  /\ currentWord = h[1].pre.currentWord
  /\ audioFiles = h[1].pre.audioFiles

\* An audio file is deleted in this step.
AudioDeleted == ~(audioFiles \subseteq audioFiles')

\* C34: audio files are deleted only by cache.reset() inside a refill: a
\* getNextPage call that finds the cache exhausted resets it once, in the
\* step that issues its (single, still pending) fetch; a call served from
\* the cache deletes nothing, and neither do "Meaning", the feedback buttons
\* and unsupported texts.  So, with events handled one at a time, the file
\* "Meaning" generated for the displayed word is still there when the
\* callbacks of the events up to the next "Next" have finished.
C34_AudioDeletedOnlyInRefill ==
  [][/\ AudioDeleted
          => \E i \in Handlers :
               /\ ResetRuns(i)
               /\ h[i].pre.currentIndex >= Len(h[i].pre.data)
               /\ h'[i].text = "Next"
               /\ h'[i].nFetch = 1
               /\ Len(fetchLog') = Len(fetchLog) + 1
               /\ fetchLog'[h'[i].call].status = "pending"
     /\ \A i \in Handlers :
          /\ (AdvanceStarts(i) /\ cacheExhausted)
               => ResetRuns(i) /\ data' = <<>> /\ currentIndex' = 0
          /\ (h'[i].pc # "idle" /\ h'[i].nFetch = 0)
               => h'[i].pre.audioFiles \subseteq audioFiles'
          /\ (/\ h'[i].pc \in {"reply", "fulfilled", "rejected"}
              /\ h'[i].text = "Meaning"
              /\ h'[i].reply.audio)
               => currentWord' \in audioFiles']_vars

C34_Witness ==
  /\ h[1].pc = "fulfilled"
  /\ h[1].text \in GradeLabels
  /\ h[1].nRecord = 1
  /\ currentWord \in audioFiles
  /\ Len(fetchLog) = 2
  /\ Cardinality(audioFiles) = 1

\* The callback i handles a "Next" that reaches getNextPage, and the
\* getNextPage call before it resolved to null: its fetch succeeded and
\* left the cache empty, which is when the "completed" reply is made.
AfterCompletion(i) ==
  /\ h[i].pc # "idle"
  /\ h[i].text = "Next"
  /\ h[i].chat # NoUserId
  /\ h[i].pre.nFetched > 0
  /\ fetchLog[h[i].pre.nFetched].status = "ok"
  /\ h[i].pre.data = <<>>
  /\ h[i].pre.currentWord = Null

PostAnswers == ~Quiescent /\ Quiescent'

\* C36: the webhook POST answers {status: "Success"} exactly when every
\* callback of the batch has returned without throwing (the callbacks of
\* ignored events included) and 500 {status: "Error"} exactly when one of
\* them has rejected; answering changes neither the cache nor the session,
\* the audio files or the calls already made: nothing is rolled back.
C36_PostStatus ==
  [][PostAnswers
       => /\ postResponse' \in {"Success", "Error"}
          /\ postResponse' = "Success"
               <=> \A j \in Handlers : h[j].pc \in {"idle", "fulfilled"}
          /\ postResponse' = "Error"
               <=> \E j \in Handlers : h[j].pc = "rejected"
          /\ UNCHANGED <<cacheVars, sessionVars, audioFiles, logVars>>]_vars

C36_Witness ==
  /\ Quiescent
  /\ postResponse = "Error"
  /\ nEvents = 2
  /\ Len(fetchLog) = 2
  /\ fetchLog[1].status = "failed"
  /\ fetchLog[2].status = "ok"
  /\ displayed # <<>>
  /\ currentWord = displayed[1]
  /\ userState = "NotUnderstood"

\* The callback i has made its client.replyMessage call.
Replied(i) == h[i].pc \in {"reply", "fulfilled"} /\ h[i].nReply = 1

\* C37: a reply offers the "Meaning" button only when "Meaning" would be
\* acted on as the next input (a word is displayed in "NotUnderstood") and
\* a feedback button only when a feedback button would be acted on (a word
\* is displayed in "Understood").
C37_OfferedActionsAccepted ==
  \A i \in Handlers :
    Replied(i)
      => /\ "Meaning" \in h[i].reply.quick => meaningAccepted
         /\ h[i].reply.quick \cap GradeLabels # {} => gradeAccepted

\* The request carries the key, and a non-empty string as v.
KeyOk == audioRequest.apiKey = INTERNAL_API_KEY
NonEmptyString(v) == v.type = "string" /\ v.n # 0

\* C38: the audio endpoint answers 403 exactly to the requests without the
\* correct internal-api-key header, and 400 exactly to the requests with
\* the key whose body yields text or pageId missing, empty or not a string;
\* a request answered 403 or 400 makes no text-to-speech call and creates
\* no file and no directory.  A text-to-speech call is made, and a file
\* written, for fully valid requests only: the file is audio-<pageId>.mp3,
\* 200 is answered only with the URL of that file, and every other request
\* is answered 500.
C38_ValidateBeforeActing ==
  /\ [](audioResponse # NoAudioResponse
          => /\ audioResponse.status \in {200, 400, 403, 500}
             /\ audioResponse.status = 403 <=> ~KeyOk
             /\ audioResponse.status = 400
                  <=> /\ KeyOk
                      /\ audioRequest.parsed
                      /\ \/ ~NonEmptyString(audioRequest.text)
                         \/ ~NonEmptyString(audioRequest.pageId)
             /\ audioResponse.status = 200
                  => /\ audioRequest.host
                     /\ audioResponse.fileUrl = audioRequest.pageId.n
                     /\ audioResponse.fileUrl \in audioFiles
                     /\ outputDirExists)
  /\ [][audioResponse'.status \in {400, 403}
          => UNCHANGED <<ttsCalls, audioFiles, outputDirExists>>]_vars
  /\ [][(\/ ttsCalls' # ttsCalls
         \/ audioFiles' # audioFiles
         \/ outputDirExists' # outputDirExists)
          => /\ audioRequest'.apiKey = INTERNAL_API_KEY
             /\ audioRequest'.parsed
             /\ NonEmptyString(audioRequest'.text)
             /\ NonEmptyString(audioRequest'.pageId)
             /\ ttsCalls' = ttsCalls + 1
             /\ audioFiles' \subseteq audioFiles \cup {audioRequest'.pageId.n}
             /\ audioResponse'.status \in {200, 500}]_vars

C38_Witness ==
  /\ audioResponse.status = 400
  /\ KeyOk
  /\ NonEmptyString(audioRequest.text)
  /\ audioRequest.pageId.type = "number"
  /\ ~outputDirExists
  /\ ttsCalls = 0
  /\ audioFiles = {}

\* No saveLearningProgress call is in progress.
NoSaveRunning == \A c \in Savers : savers[c].pc = "idle"

\* The sum of the four memorized counters.
memorizedSum ==
  progressDoc.memorized["Never Better"] + progressDoc.memorized["Good"]
    + progressDoc.memorized["So So"] + progressDoc.memorized["Not At All"]

\* C39: when the saveLearningProgress calls made for a date have settled,
\* also after their getDoc, setDoc and updateDoc steps have interleaved,
\* totalStudied is the number of calls that returned and is the sum of the
\* four memorized counters.
C39_CountersConsistent ==
  NoSaveRunning
    => /\ progressDoc.totalStudied = nSaved
       /\ progressDoc.totalStudied = memorizedSum

\* C40: whenever handleSubmit is not running (it has returned, after a
\* validation failure as well as after onSubmit has resolved or rejected),
\* isLoading is false.
C40_LoadingCleared == formPc = "idle" => ~isLoading

====
